---- MODULE Spec2Model ----
(***************************************************************************)
(* DNS zone manager: record validation, zone-file serialization and the    *)
(* dual-location store (system directory /etc/bind/zone with a local       *)
(* fallback directory), as implemented by server.js and by the batch       *)
(* generator script.                                                       *)
(*                                                                         *)
(* Text is modelled by its pieces.  A domain and a file name are tuples of *)
(* one-character strings.  A file's content is a sequence of lines, and a  *)
(* line is the tuple of string pieces whose concatenation is the line.     *)
(* JSON text is a sequence of tokens, one token per line.                  *)
(*                                                                         *)
(* The zone editor (the React component DNSZoneManager) is the variable    *)
(* ui; it talks to the server through fetch, whose answers are inputs of   *)
(* its steps.                                                              *)
(***************************************************************************)
EXTENDS Integers, Sequences, FiniteSets, TLC

VARIABLES sysDir, localDir, sysFiles, localFiles, resp, hist, ops, ui

vars == <<sysDir, localDir, sysFiles, localFiles, resp, hist, ops, ui>>

(***************************************************************************)
(* Characters and strings                                                  *)
(***************************************************************************)
UpperCase == <<"A","B","C","D","E","F","G","H","I","J","K","L","M",
               "N","O","P","Q","R","S","T","U","V","W","X","Y","Z">>
LowerCase == <<"a","b","c","d","e","f","g","h","i","j","k","l","m",
               "n","o","p","q","r","s","t","u","v","w","x","y","z">>
Digits == {"0","1","2","3","4","5","6","7","8","9"}
WhiteSpace == {" ", "\t", "\n"}

Range(s) == {s[i] : i \in DOMAIN s}

\* String.prototype.toLowerCase, one character
toLowerCase(c) ==
  IF c \in Range(UpperCase)
  THEN LowerCase[CHOOSE i \in DOMAIN UpperCase : UpperCase[i] = c]
  ELSE c

\* String.prototype.trim on a tuple of characters
RECURSIVE trimStart(_)
trimStart(s) ==
  IF s # <<>> /\ Head(s) \in WhiteSpace THEN trimStart(Tail(s)) ELSE s

RECURSIVE trimEnd(_)
trimEnd(s) ==
  IF s # <<>> /\ s[Len(s)] \in WhiteSpace
  THEN trimEnd(SubSeq(s, 1, Len(s) - 1)) ELSE s

trim(s) == trimEnd(trimStart(s))

\* the characters of the strings the record fields are drawn from
Chars(s) ==
  CASE s = ""      -> <<>>
    [] s = "3600"  -> <<"3","6","0","0">>
    [] s = "3600s" -> <<"3","6","0","0","s">>
    [] s = "1h"    -> <<"1","h">>
    [] s = "abc"   -> <<"a","b","c">>
    [] s = " "     -> <<" ">>
    [] s = "x"     -> <<"x">>
    [] s = "10"    -> <<"1","0">>
    [] s = "20"    -> <<"2","0">>
    [] s = "-1"    -> <<"-","1">>
    [] s = "1.5"   -> <<"1",".","5">>
    [] s = "@"     -> <<"@">>
    [] s = "www"   -> <<"w","w","w">>
    [] s = "mail.x.com" -> <<"m","a","i","l",".","x",".","c","o","m">>
    [] s = "bad host"   -> <<"b","a","d"," ","h","o","s","t">>
    [] s = "192.0.2.1"  -> <<"1","9","2",".","0",".","2",".","1">>
    [] s = "999.1.1.1"  -> <<"9","9","9",".","1",".","1",".","1">>
    [] s = "2001:db8::1" -> <<"2","0","0","1",":","d","b","8",":",":","1">>
    [] s = "v=spf1 -all" -> <<"v","=","s","p","f","1"," ","-","a","l","l">>

\* s.endsWith(suffix) on tuples of characters
endsWith(s, suffix) ==
  /\ Len(s) >= Len(suffix)
  /\ SubSeq(s, Len(s) - Len(suffix) + 1, Len(s)) = suffix

startsWith(s, prefix) ==
  /\ Len(s) >= Len(prefix)
  /\ SubSeq(s, 1, Len(prefix)) = prefix

(***************************************************************************)
(* File names                                                              *)
(***************************************************************************)
DbPrefix == <<"d","b",".">>
JsonSuffix == <<".","j","s","o","n">>

\* replace(/[^a-z0-9.-]/g, '-')
SafeChars == Range(LowerCase) \cup Digits \cup {".", "-"}

sanitizeDomainForFilename(domain) ==
  LET t == trim(domain)
      l == [i \in DOMAIN t |-> toLowerCase(t[i])]
  IN  [i \in DOMAIN l |-> IF l[i] \in SafeChars THEN l[i] ELSE "-"]

\* `db.${safeDomain}`
zoneFilename(safeDomain) == DbPrefix \o safeDomain

(***************************************************************************)
(* Records.  A record set maps type tags to arrays of records; a record    *)
(* is a function on the fields it has (an absent field is undefined).      *)
(***************************************************************************)
Has(r, f) == f \in DOMAIN r

\* the value null of a field, which no string of the inputs equals
Null == "null (the value)"

\* JavaScript truthiness of r[f] for string fields: defined, not null, non-empty
Truthy(r, f) == Has(r, f) /\ r[f] # "" /\ r[f] # Null

\* `${v}` in a template literal, for a string or null
Template(v) == IF v = Null THEN "null" ELSE v

\* `${r[f]}` in a template literal
Str(r, f) == IF Has(r, f) THEN Template(r[f]) ELSE "undefined"

\* r[f] || ''
OrEmpty(r, f) == IF Truthy(r, f) THEN r[f] ELSE ""

(***************************************************************************)
(* validateRecords                                                         *)
(***************************************************************************)
RECURSIVE stripNonDigits(_)
stripNonDigits(s) ==
  IF s = <<>> THEN <<>>
  ELSE IF Head(s) \in Digits THEN <<Head(s)>> \o stripNonDigits(Tail(s))
  ELSE stripNonDigits(Tail(s))

\* ttl === undefined || ttl === null || ttl === '' ; else parseInt of the digits
checkTTL(r) ==
  IF ~Has(r, "ttl") \/ r.ttl = Null \/ r.ttl = "" THEN TRUE
  ELSE stripNonDigits(Chars(r.ttl)) # <<>>

\* split a tuple of characters on '.'
RECURSIVE splitDots(_, _)
splitDots(s, cur) ==
  IF s = <<>> THEN <<cur>>
  ELSE IF Head(s) = "." THEN <<cur>> \o splitDots(Tail(s), <<>>)
  ELSE splitDots(Tail(s), Append(cur, Head(s)))

DigitValue(c) ==
  CASE c = "0" -> 0 [] c = "1" -> 1 [] c = "2" -> 2 [] c = "3" -> 3
    [] c = "4" -> 4 [] c = "5" -> 5 [] c = "6" -> 6 [] c = "7" -> 7
    [] c = "8" -> 8 [] c = "9" -> 9

RECURSIVE decimal(_, _)
decimal(s, acc) ==
  IF s = <<>> THEN acc ELSE decimal(Tail(s), 10 * acc + DigitValue(Head(s)))

\* net.isIP's IPv4 octet: 0..255 in decimal, no leading zero
isOctet(s) ==
  /\ Len(s) \in 1..3
  /\ \A i \in DOMAIN s : s[i] \in Digits
  /\ (Len(s) > 1 => s[1] # "0")
  /\ decimal(s, 0) <= 255

IPv6Samples == {"2001:db8::1"}

\* net.isIP: 4, 6 or 0
isIP(v) ==
  LET parts == splitDots(Chars(v), <<>>)
  IN  IF Len(parts) = 4 /\ \A i \in 1..4 : isOctet(parts[i]) THEN 4
      ELSE IF v \in IPv6Samples THEN 6
      ELSE 0

\* Number(pr) is an integer >= 0, for strings of decimal digits, signs and dots
isNonNegInteger(pr) ==
  LET t == trim(Chars(pr))
  IN  t = <<>> \/ \A i \in DOMAIN t : t[i] \in Digits

\* /^[a-zA-Z0-9.-]+$/
HostChars == Range(LowerCase) \cup Range(UpperCase) \cup Digits \cup {".", "-"}

hostnameRE(v) ==
  LET c == Chars(v) IN c # <<>> /\ \A i \in DOMAIN c : c[i] \in HostChars

\* `${key}[${idx}]`
At(key, idx) == <<key, "[", ToString(idx), "]">>

ttlError(key, r, idx) ==
  IF checkTTL(r) THEN <<>>
  ELSE << At(key, idx) \o <<" has invalid ttl '", Str(r, "ttl"), "'">> >>

missingValue(key, idx) == << At(key, idx) \o <<" missing value">> >>

\* the callback of records[key].forEach, by type
entryErrors(key, r, idx) ==
  CASE key = "A" ->
         IF ~Truthy(r, "value") THEN missingValue(key, idx)
         ELSE (IF isIP(r.value) # 4
               THEN << At(key, idx) \o <<" value '", r.value, "' is not a valid IPv4 address">> >>
               ELSE <<>>) \o ttlError(key, r, idx)
    [] key = "AAAA" ->
         IF ~Truthy(r, "value") THEN missingValue(key, idx)
         ELSE (IF isIP(r.value) # 6
               THEN << At(key, idx) \o <<" value '", r.value, "' is not a valid IPv6 address">> >>
               ELSE <<>>) \o ttlError(key, r, idx)
    [] key = "MX" ->
         IF ~Truthy(r, "value") THEN missingValue(key, idx)
         ELSE (IF Truthy(r, "priority") /\ ~isNonNegInteger(r.priority)
               THEN << At(key, idx) \o <<" has invalid priority '", r.priority, "'">> >>
               ELSE <<>>) \o ttlError(key, r, idx)
    [] key = "CNAME" ->
         IF ~Truthy(r, "value") THEN missingValue(key, idx)
         ELSE (IF ~hostnameRE(r.value)
               THEN << At(key, idx) \o <<" value '", r.value, "' looks invalid">> >>
               ELSE <<>>) \o ttlError(key, r, idx)
    [] OTHER ->
         IF ~Has(r, "value") THEN missingValue(key, idx)
         ELSE ttlError(key, r, idx)

\* records[key].forEach((r, idx) => ...), from position i (idx = i - 1)
RECURSIVE arrayErrors(_, _, _)
arrayErrors(key, arr, i) ==
  IF i > Len(arr) THEN <<>>
  ELSE entryErrors(key, arr[i], i - 1) \o arrayErrors(key, arr, i + 1)

\* the order in which validateRecords visits the types
ValidatedKeys == <<"A", "AAAA", "MX", "CNAME", "TXT", "SPF", "Other TXT Records">>

RECURSIVE keysErrors(_, _)
keysErrors(records, k) ==
  IF k > Len(ValidatedKeys) THEN <<>>
  ELSE (IF Has(records, ValidatedKeys[k])
        THEN arrayErrors(ValidatedKeys[k], records[ValidatedKeys[k]], 1)
        ELSE <<>>) \o keysErrors(records, k + 1)

\* validateRecords that stops at the first error
validateRecordsFirstOnly(records) ==
  LET errors == keysErrors(records, 1)
  IN  IF errors = <<>> THEN <<>> ELSE <<errors[1]>>

validateRecords(records) == keysErrors(records, 1)

(***************************************************************************)
(* formatZoneFile                                                          *)
(***************************************************************************)
Tab == "\t"
Indent == "                                        "

RECURSIVE dropEmpty(_)
dropEmpty(line) ==
  IF line = <<>> THEN <<>>
  ELSE IF Head(line) = "" THEN dropEmpty(Tail(line))
  ELSE <<Head(line)>> \o dropEmpty(Tail(line))

\* String.prototype.replace('\t\t', '\t'): the first occurrence only
RECURSIVE replaceFirstDoubleTab(_)
replaceFirstDoubleTab(line) ==
  IF Len(line) < 2 THEN line
  ELSE IF line[1] = Tab /\ line[2] = Tab THEN Tail(line)
  ELSE <<Head(line)>> \o replaceFirstDoubleTab(Tail(line))

\* r.name && r.name !== '@' ? r.name : '@'
apexName(r) == IF Truthy(r, "name") /\ r.name # "@" THEN r.name ELSE "@"

\* r.priority !== undefined && r.priority !== '' ? r.priority : '10'
mxPriority(r) ==
  IF Has(r, "priority") /\ r.priority # "" THEN Template(r.priority) ELSE "10"

\* one record line of the section of `type`
recordLine(type, r) ==
  LET name == IF type = "CNAME" THEN OrEmpty(r, "name") ELSE apexName(r)
      ttl == OrEmpty(r, "ttl")
      data == CASE type = "MX" -> <<mxPriority(r), Tab, Str(r, "value")>>
                [] type = "TXT" -> <<"\"", OrEmpty(r, "value"), "\"">>
                [] OTHER -> <<Str(r, "value")>>
  IN  replaceFirstDoubleTab(
        dropEmpty(<<name, Tab, ttl, Tab, "IN", Tab, type, Tab>> \o data))

\* a section: its comment, its record lines and a blank line; nothing when empty
section(type, arr) ==
  IF arr = <<>> THEN <<>>
  ELSE << <<"; ", type, " Record">> >>
       \o [i \in DOMAIN arr |-> recordLine(type, arr[i])]
       \o << <<>> >>

ArrayOf(records, key) == IF Has(records, key) THEN records[key] ELSE <<>>

\* records['Other Records'].filter((r) => r.type === 'NS')
RECURSIVE filterNS(_)
filterNS(arr) ==
  IF arr = <<>> THEN <<>>
  ELSE IF Has(Head(arr), "type") /\ Head(arr).type = "NS"
       THEN <<Head(arr)>> \o filterNS(Tail(arr))
       ELSE filterNS(Tail(arr))

\* the lines before the first section: $TTL, $ORIGIN and the SOA record
Preamble(domain, date) ==
  << <<"$TTL     86400    ; default TTL for this zone (1 day)">>,
     <<"$ORIGIN ">> \o domain \o <<".">>,
     <<>>,
     <<"; SOA Record">>,
     <<"@       3600     IN     SOA     dns1.nobus.io.  hostmaster.nobus.io. (">>,
     <<Indent, date, "01">>,
     <<Indent, "28800">>,
     <<Indent, "7200">>,
     <<Indent, "604800">>,
     <<Indent, "3600">>,
     <<Indent, ")">>,
     <<>> >>

\* formatZoneFile that emits the sections in the order validateRecords visits the
\* types: MX before CNAME, and SPF before Other TXT Records
formatZoneFileValidateOrder(domain, records, date) ==
  Preamble(domain, date)
  \o section("A", ArrayOf(records, "A"))
  \o section("AAAA", ArrayOf(records, "AAAA"))
  \o section("MX", ArrayOf(records, "MX"))
  \o section("CNAME", ArrayOf(records, "CNAME"))
  \o section("TXT", ArrayOf(records, "TXT") \o ArrayOf(records, "SPF")
                    \o ArrayOf(records, "Other TXT Records"))
  \o section("NS", filterNS(ArrayOf(records, "Other Records")))

\* the zone text: a sequence of lines; `date` is the UTC date YYYYMMDD
formatZoneFile(domain, records, date) ==
  Preamble(domain, date)
  \o section("A", ArrayOf(records, "A"))
  \o section("AAAA", ArrayOf(records, "AAAA"))
  \o section("CNAME", ArrayOf(records, "CNAME"))
  \o section("MX", ArrayOf(records, "MX"))
  \o section("TXT", ArrayOf(records, "TXT") \o ArrayOf(records, "Other TXT Records")
                    \o ArrayOf(records, "SPF"))
  \o section("NS", filterNS(ArrayOf(records, "Other Records")))

(***************************************************************************)
(* JSON.stringify and JSON.parse.  One token per line: the punctuation     *)
(* tokens, <<"key", k>> for a member name, <<"str", s>> for a string and   *)
(* <<"null">>.                                                             *)
(***************************************************************************)
TypeKeys == <<"A", "AAAA", "CNAME", "MX", "TXT", "Other TXT Records", "SPF", "Other Records">>
FieldKeys == <<"name", "type", "value", "ttl", "priority">>

RECURSIVE stringifyFields(_, _)
stringifyFields(r, k) ==
  IF k > Len(FieldKeys) THEN <<>>
  ELSE (IF Has(r, FieldKeys[k])
        THEN << <<"key", FieldKeys[k]>>,
                IF r[FieldKeys[k]] = Null THEN <<"null">> ELSE <<"str", r[FieldKeys[k]]>> >>
        ELSE <<>>) \o stringifyFields(r, k + 1)

RECURSIVE stringifyArray(_, _)
stringifyArray(arr, i) ==
  IF i > Len(arr) THEN <<>>
  ELSE << <<"{">> >> \o stringifyFields(arr[i], 1) \o << <<"}">> >>
       \o stringifyArray(arr, i + 1)

\* the member names of the objects that are stringified: the type keys, and the
\* key the editor's INITIAL_RECORDS spells with a small r
ObjectKeys == TypeKeys \o <<"Other TXT records">>

RECURSIVE stringifyKeys(_, _)
stringifyKeys(records, k) ==
  IF k > Len(ObjectKeys) THEN <<>>
  ELSE (IF Has(records, ObjectKeys[k])
        THEN << <<"key", ObjectKeys[k]>>, <<"[">> >>
             \o stringifyArray(records[ObjectKeys[k]], 1) \o << <<"]">> >>
        ELSE <<>>) \o stringifyKeys(records, k + 1)

\* JSON.stringify(records, null, 2)
JSONstringify(records) == << <<"{">> >> \o stringifyKeys(records, 1) \o << <<"}">> >>

ParseFail == [ok |-> FALSE, val |-> <<>>, next |-> 0]

RECURSIVE parseValue(_, _)
RECURSIVE parseMembers(_, _, _)
RECURSIVE parseElements(_, _, _)

parseValue(t, i) ==
  IF i > Len(t) THEN ParseFail
  ELSE IF t[i] = <<"{">> THEN parseMembers(t, i + 1, <<>>)
  ELSE IF t[i] = <<"[">> THEN parseElements(t, i + 1, <<>>)
  ELSE IF t[i] = <<"null">> THEN [ok |-> TRUE, val |-> Null, next |-> i + 1]
  ELSE IF Len(t[i]) = 2 /\ t[i][1] = "str"
       THEN [ok |-> TRUE, val |-> t[i][2], next |-> i + 1]
  ELSE ParseFail

parseMembers(t, i, acc) ==
  IF i > Len(t) THEN ParseFail
  ELSE IF t[i] = <<"}">> THEN [ok |-> TRUE, val |-> acc, next |-> i + 1]
  ELSE IF Len(t[i]) = 2 /\ t[i][1] = "key"
       THEN LET v == parseValue(t, i + 1)
            IN  IF v.ok
                THEN parseMembers(t, v.next,
                       [x \in DOMAIN acc \cup {t[i][2]} |->
                          IF x = t[i][2] THEN v.val ELSE acc[x]])
                ELSE ParseFail
  ELSE ParseFail

parseElements(t, i, acc) ==
  IF i > Len(t) THEN ParseFail
  ELSE IF t[i] = <<"]">> THEN [ok |-> TRUE, val |-> acc, next |-> i + 1]
  ELSE LET v == parseValue(t, i)
       IN  IF v.ok THEN parseElements(t, v.next, Append(acc, v.val))
           ELSE ParseFail

\* JSON.parse(raw): ok is FALSE where JSON.parse throws
JSONparse(raw) ==
  LET r == parseValue(raw, 1)
  IN  IF r.ok /\ r.next = Len(raw) + 1 THEN [ok |-> TRUE, val |-> r.val]
      ELSE [ok |-> FALSE, val |-> <<>>]

(***************************************************************************)
(* Inputs                                                                  *)
(***************************************************************************)
\* "x", "X" (same file name as "x") and "x.json" (its zone text is db.x.json)
Domains == { <<"x">>, <<"X">>, <<"x", ".", "j", "s", "o", "n">> }

RsA == [A |-> << [name |-> "@", value |-> "192.0.2.1", ttl |-> "3600"] >>]
RsMX == [A |-> <<>>, MX |-> << [value |-> "mail.x.com"] >>]
RsBadIP == [A |-> << [value |-> "999.1.1.1"] >>]

RecordSets == {RsA, RsMX, RsBadIP}

\* the UTC date of a write, YYYYMMDD
Dates == {"20261101"}

\* the number of operations in a run
MaxOps == 2

(***************************************************************************)
(* The values the pure functions take on the inputs above, computed once.  *)
(***************************************************************************)
ErrorsOf == [records \in RecordSets |-> validateRecords(records)]

ZoneTextOf ==
  [domain \in Domains, records \in RecordSets, date \in Dates |->
     formatZoneFile(domain, records, date)]

JsonOf == [records \in RecordSets |-> JSONstringify(records)]

FilenameOf == [domain \in Domains |-> zoneFilename(sanitizeDomainForFilename(domain))]

(***************************************************************************)
(* The file system: the two zone directories and the files in them.  A     *)
(* failing call throws and leaves the file system as it was.               *)
(***************************************************************************)
FsCalls == {"mkdir system", "write system text", "write system json",
            "write local text", "write local json"}

\* The first call that throws ends its try block, and the fallback runs only
\* when the system attempt threw: the sets of failing calls that differ in their
\* outcome name at most one call of the system attempt and, when that is the
\* mkdir or the text write, at most one call of the fallback.
Faults ==
  {f \in SUBSET FsCalls :
     /\ Cardinality(f \cap {"mkdir system", "write system text", "write system json"}) <= 1
     /\ Cardinality(f \cap {"write local text", "write local json"}) <= 1
     /\ ("write system json" \in f => Cardinality(f) = 1)
     /\ (f \cap {"write local text", "write local json"} # {}
           => f \cap {"mkdir system", "write system text"} # {})}

NoFiles == <<>>

exists(files, name) == name \in DOMAIN files

\* writeFileSync that keeps a file that is already there (the 'wx' flag)
writeFileSyncNoOverwrite(files, name, content) ==
  IF name \in DOMAIN files THEN files
  ELSE [f \in DOMAIN files \cup {name} |-> IF f = name THEN content ELSE files[f]]

\* fs.writeFileSync(path, content)
writeFileSync(files, name, content) ==
  [f \in DOMAIN files \cup {name} |-> IF f = name THEN content ELSE files[f]]

\* fs.unlinkSync(path)
unlinkSync(files, name) == [f \in DOMAIN files \ {name} |-> files[f]]

\* the calls a write made, each with its outcome
Call(name, ok) == <<name, IF ok THEN "ok" ELSE "threw">>

(***************************************************************************)
(* The body of writeZoneFile and of writeZone: the system directory first, *)
(* the local directory when that throws.  `fail` is the set of calls that  *)
(* throw if they are made; a write into a missing directory throws too.    *)
(***************************************************************************)
\* systemAttempt without the inner try/catch: a failing sidecar write ends the
\* try block like any other failure
systemAttemptSidecarFatal(filename, zoneContent, json, fail) ==
  LET mkdirOk == "mkdir system" \notin fail
      dir == sysDir \/ mkdirOk
      textOk == dir /\ "write system text" \notin fail
      jsonOk == textOk /\ "write system json" \notin fail
      f1 == IF textOk THEN writeFileSync(sysFiles, filename, zoneContent) ELSE sysFiles
      f2 == IF jsonOk THEN writeFileSync(f1, filename \o JsonSuffix, json) ELSE f1
  IN  [ dir |-> dir, files |-> f2, ok |-> jsonOk,
        calls |-> (IF ~sysDir THEN <<Call("mkdir system", mkdirOk)>> ELSE <<>>)
                  \o (IF dir THEN <<Call("write system text", textOk)>> ELSE <<>>)
                  \o (IF textOk THEN <<Call("write system json", jsonOk)>> ELSE <<>>) ]

\* the try block: mkdir if missing, the zone text, then the sidecar in its
\* own try/catch; ok is FALSE when the block throws
systemAttempt(filename, zoneContent, json, fail) ==
  LET mkdirOk == "mkdir system" \notin fail
      dir == sysDir \/ mkdirOk
      textOk == dir /\ "write system text" \notin fail
      jsonOk == textOk /\ "write system json" \notin fail
      f1 == IF textOk THEN writeFileSync(sysFiles, filename, zoneContent) ELSE sysFiles
      f2 == IF jsonOk THEN writeFileSync(f1, filename \o JsonSuffix, json) ELSE f1
  IN  [ dir |-> dir, files |-> f2, ok |-> textOk,
        calls |-> (IF ~sysDir THEN <<Call("mkdir system", mkdirOk)>> ELSE <<>>)
                  \o (IF dir THEN <<Call("write system text", textOk)>> ELSE <<>>)
                  \o (IF textOk THEN <<Call("write system json", jsonOk)>> ELSE <<>>) ]

\* localFallback that writes the zone text and forgets the sidecar
localFallbackTextOnly(filename, zoneContent, json, fail) ==
  LET textOk == localDir /\ "write local text" \notin fail
      f1 == IF textOk THEN writeFileSync(localFiles, filename, zoneContent)
            ELSE localFiles
  IN  [ files |-> f1, ok |-> textOk,
        calls |-> <<Call("write local text", textOk)>> ]

\* localFallback that creates the local directory instead of needing it
localFallbackMkdir(filename, zoneContent, json, fail) ==
  LET textOk == "write local text" \notin fail
      jsonOk == textOk /\ "write local json" \notin fail
      f1 == IF textOk THEN writeFileSync(localFiles, filename, zoneContent)
            ELSE localFiles
      f2 == IF jsonOk THEN writeFileSync(f1, filename \o JsonSuffix, json) ELSE f1
  IN  [ files |-> f2, ok |-> jsonOk,
        calls |-> <<Call("write local text", textOk)>>
                  \o (IF textOk THEN <<Call("write local json", jsonOk)>> ELSE <<>>) ]

\* localFallback that swallows a failing sidecar write as the system attempt does
localFallbackSwallows(filename, zoneContent, json, fail) ==
  LET textOk == localDir /\ "write local text" \notin fail
      jsonOk == textOk /\ "write local json" \notin fail
      f1 == IF textOk THEN writeFileSync(localFiles, filename, zoneContent)
            ELSE localFiles
      f2 == IF jsonOk THEN writeFileSync(f1, filename \o JsonSuffix, json) ELSE f1
  IN  [ files |-> f2, ok |-> textOk,
        calls |-> <<Call("write local text", textOk)>>
                  \o (IF textOk THEN <<Call("write local json", jsonOk)>> ELSE <<>>) ]

\* the catch block: the zone text and the sidecar into the local directory;
\* ok is FALSE when the block throws
localFallback(filename, zoneContent, json, fail) ==
  LET textOk == localDir /\ "write local text" \notin fail
      jsonOk == textOk /\ "write local json" \notin fail
      f1 == IF textOk THEN writeFileSync(localFiles, filename, zoneContent)
            ELSE localFiles
      f2 == IF jsonOk THEN writeFileSync(f1, filename \o JsonSuffix, json) ELSE f1
  IN  [ files |-> f2, ok |-> jsonOk,
        calls |-> <<Call("write local text", textOk)>>
                  \o (IF textOk THEN <<Call("write local json", jsonOk)>> ELSE <<>>) ]

writeWithFallback(filename, zoneContent, json, fail) ==
  LET s == systemAttempt(filename, zoneContent, json, fail)
      l == localFallback(filename, zoneContent, json, fail)
  IN  IF s.ok
      THEN [ sysDir |-> s.dir, sysFiles |-> s.files, localFiles |-> localFiles,
             threw |-> FALSE, writtenTo |-> "system",
             path |-> <<"system">> \o filename, calls |-> s.calls ]
      ELSE [ sysDir |-> s.dir, sysFiles |-> s.files, localFiles |-> l.files,
             threw |-> ~l.ok, writtenTo |-> IF l.ok THEN "local" ELSE "",
             path |-> IF l.ok THEN <<"local">> \o filename ELSE <<>>,
             calls |-> s.calls \o l.calls ]

\* the outcome of a write that throws before it touches the file system
ThrewBeforeWrite ==
  [ sysDir |-> sysDir, sysFiles |-> sysFiles, localFiles |-> localFiles,
    threw |-> TRUE, writtenTo |-> "", path |-> <<>>, calls |-> <<>> ]

\* server.js writeZoneFile(domain, records)
writeZoneFile(domain, records, date, fail) ==
  IF ErrorsOf[records] # <<>> THEN ThrewBeforeWrite
  ELSE writeWithFallback(FilenameOf[domain], ZoneTextOf[domain, records, date],
                         JsonOf[records], fail)

\* the generator script's writeZone(domain, records): no validation
writeZone(domain, records, date, fail) ==
  writeWithFallback(FilenameOf[domain], ZoneTextOf[domain, records, date],
                    JsonOf[records], fail)

(***************************************************************************)
(* loadRecords                                                             *)
(***************************************************************************)
\* derivedDomain that strips the db. prefix and leaves the .json suffix
derivedDomainKeepsSuffix(f) ==
  IF startsWith(f, DbPrefix) THEN SubSeq(f, Len(DbPrefix) + 1, Len(f)) ELSE f

\* f.replace(/^db\./, '').replace(/\.json$/, '')
derivedDomain(f) ==
  LET a == IF startsWith(f, DbPrefix) THEN SubSeq(f, Len(DbPrefix) + 1, Len(f)) ELSE f
  IN  IF endsWith(a, JsonSuffix) THEN SubSeq(a, 1, Len(a) - Len(JsonSuffix)) ELSE a

\* the files of a directory that the scan reads and parses
parsedFiles(files) ==
  {f \in DOMAIN files : endsWith(f, JsonSuffix) /\ JSONparse(files[f]).ok}

\* scanDir without the inner try/catch: a file that does not parse ends the scan
\* of its directory
scanDirAborts(files, result) ==
  LET keys == {derivedDomain(f) : f \in parsedFiles(files)}
      fileOf(k) == CHOOSE f \in parsedFiles(files) : derivedDomain(f) = k
  IN  IF \E f \in DOMAIN files : endsWith(f, JsonSuffix) /\ ~JSONparse(files[f]).ok
      THEN result
      ELSE [k \in DOMAIN result \cup keys |->
              IF k \in keys THEN JSONparse(files[fileOf(k)]).val ELSE result[k]]

\* the inner loop over one directory's files; files that do not parse are skipped
scanDir(files, result) ==
  LET keys == {derivedDomain(f) : f \in parsedFiles(files)}
      fileOf(k) == CHOOSE f \in parsedFiles(files) : derivedDomain(f) = k
  IN  [k \in DOMAIN result \cup keys |->
         IF k \in keys THEN JSONparse(files[fileOf(k)]).val ELSE result[k]]

\* the directories whose readdirSync is called and throws
ignoredDirs(unreadable) ==
  ((IF sysDir THEN {"system"} ELSE {}) \cup (IF localDir THEN {"local"} ELSE {}))
    \cap unreadable

\* loadRecords that scans the local directory first and the system directory last
loadRecordsSystemLast(unreadable) ==
  LET r1 == IF localDir /\ "local" \notin unreadable
            THEN scanDir(localFiles, <<>>) ELSE <<>>
  IN  IF sysDir /\ "system" \notin unreadable THEN scanDir(sysFiles, r1) ELSE r1

\* loadRecords(); readdirSync throws for the directories in `unreadable`
loadRecords(unreadable) ==
  LET r1 == IF sysDir /\ "system" \notin unreadable
            THEN scanDir(sysFiles, <<>>) ELSE <<>>
  IN  IF localDir /\ "local" \notin unreadable THEN scanDir(localFiles, r1) ELSE r1

(***************************************************************************)
(* The outcome of the last operation, as its caller sees it, and the       *)
(* history of the writes: hist[d] is "none" until a write of d reaches the *)
(* file system, "attempted" while every such write threw, then "ok".       *)
(***************************************************************************)
Quiet ==
  [ op |-> "none", domain |-> <<>>, records |-> <<>>, status |-> 0, threw |-> FALSE,
    writtenTo |-> "", path |-> <<>>, calls |-> <<>>, removed |-> <<>>,
    details |-> <<>>, ignored |-> {}, body |-> <<>> ]

noted(h, domain, threw) ==
  [h EXCEPT ![domain] = IF ~threw \/ @ = "ok" THEN "ok" ELSE "attempted"]

\* INITIAL_RECORDS of the zone editor
INITIAL_RECORDS ==
  [k \in {"A", "CNAME", "MX", "TXT", "SPF", "Other TXT records"} |->
     CASE k = "A" -> << [name |-> "@", value |-> "192.0.2.1", ttl |-> "3600s"] >>
       [] k = "CNAME" -> << [name |-> "www", value |-> "google.com", ttl |-> "3600s"] >>
       [] k = "MX" -> << [name |-> "@", value |-> "mail.google.com", ttl |-> "3600s",
                          priority |-> "10"] >>
       [] k = "TXT" -> << [name |-> "@", value |-> "v=spf1 include:_spf.google.com ~all",
                           ttl |-> "3600s"] >>
       [] k = "SPF" -> << [name |-> "@", value |-> "v=spf1 ip4:192.0.2.0/24 -all",
                           ttl |-> "3600s"] >>
       [] k = "Other TXT records" ->
            << [name |-> "@", value |-> "google-site-verification=abc123",
                ttl |-> "86400s"] >>]

\* the editor when the component mounts.  Besides the five useState values:
\* `shared` says that records and originalRecords are one object, `pending` holds
\* the handlers waiting in an await, `captured` the records a waiting handleSave
\* closed over and `linked` that their rows are rows of the current records;
\* `event` names the last step, `entered` holds the records displayed when
\* editing mode was last entered, `undisturbed` says that since then no answer
\* of the server and no new domain has reached the editor, and `events` counts
\* the steps.
Mounted ==
  [ domain |-> "", showRecords |-> FALSE, isEditing |-> FALSE,
    records |-> INITIAL_RECORDS, originalRecords |-> INITIAL_RECORDS,
    shared |-> TRUE, pending |-> {}, captured |-> <<>>, linked |-> FALSE,
    event |-> "none", entered |-> <<>>, undisturbed |-> FALSE, events |-> 0 ]

Init ==
  /\ ui = Mounted
  /\ sysDir \in BOOLEAN
  /\ localDir = TRUE
  /\ sysFiles = NoFiles
  /\ localFiles = NoFiles
  /\ resp = Quiet
  /\ hist = [d \in Domains |-> "none"]
  /\ ops = 0

\* every operation counts towards the length of the run; the server does not
\* reach into the editor
Step == ops < MaxOps /\ ops' = ops + 1 /\ UNCHANGED ui

\* the handler of POST /api/records/:domain (PUT has the same body)
save(op, domain, records, date, fail) ==
  LET errors == ErrorsOf[records]
      w == writeZoneFile(domain, records, date, fail)
  IN  IF errors # <<>>
      THEN /\ resp' = [Quiet EXCEPT !.op = op, !.domain = domain, !.records = records,
                                    !.status = 400, !.details = errors]
           /\ UNCHANGED <<sysDir, localDir, sysFiles, localFiles, hist>>
      ELSE /\ sysDir' = w.sysDir
           /\ sysFiles' = w.sysFiles
           /\ localFiles' = w.localFiles
           /\ resp' = [Quiet EXCEPT !.op = op, !.domain = domain, !.records = records,
                                    !.status = IF w.threw THEN 500 ELSE 200,
                                    !.threw = w.threw, !.writtenTo = w.writtenTo,
                                    !.path = w.path, !.calls = w.calls]
           /\ hist' = noted(hist, domain, w.threw)
           /\ UNCHANGED localDir

SaveRecords ==
  /\ Step
  /\ \E domain \in Domains, records \in RecordSets, date \in Dates, fail \in Faults :
       save("save", domain, records, date, fail)

\* one iteration of the generator script's loop over dns_records.txt
ScriptWrite ==
  \E domain \in Domains, records \in RecordSets, date \in Dates, fail \in Faults :
    LET w == writeZone(domain, records, date, fail)
    IN  /\ Step
        /\ sysDir' = w.sysDir
        /\ sysFiles' = w.sysFiles
        /\ localFiles' = w.localFiles
        /\ resp' = [Quiet EXCEPT !.op = "script", !.domain = domain, !.records = records,
                                 !.threw = w.threw, !.writtenTo = w.writtenTo,
                                 !.path = w.path, !.calls = w.calls]
        /\ hist' = noted(hist, domain, w.threw)
        /\ UNCHANGED localDir

\* the four targets of DELETE, in the order the handler visits them
DeleteTargets == <<"system text", "system json", "local text", "local json">>

\* DELETE /api/records/:domain; unlinkSync throws for the targets in `fail`
deleteZone(domain, fail) ==
  LET zone == DbPrefix \o domain
      json == zone \o JsonSuffix
      gone(dir, files, name, target) == dir /\ exists(files, name) /\ target \notin fail
      threw(dir, files, name, target) ==
        IF dir /\ exists(files, name) /\ target \in fail THEN {target} ELSE {}
      rm(files, name, ok) == IF ok THEN unlinkSync(files, name) ELSE files
      s1 == gone(sysDir, sysFiles, zone, "system text")
      s2 == gone(sysDir, sysFiles, json, "system json")
      l1 == gone(localDir, localFiles, zone, "local text")
      l2 == gone(localDir, localFiles, json, "local json")
  IN  [ sysFiles |-> rm(rm(sysFiles, zone, s1), json, s2),
        localFiles |-> rm(rm(localFiles, zone, l1), json, l2),
        removed |-> (IF s1 THEN << <<"system">> \o zone >> ELSE <<>>)
                    \o (IF s2 THEN << <<"system">> \o json >> ELSE <<>>)
                    \o (IF l1 THEN << <<"local">> \o zone >> ELSE <<>>)
                    \o (IF l2 THEN << <<"local">> \o json >> ELSE <<>>),
        ignored |-> threw(sysDir, sysFiles, zone, "system text")
                    \cup threw(sysDir, sysFiles, json, "system json")
                    \cup threw(localDir, localFiles, zone, "local text")
                    \cup threw(localDir, localFiles, json, "local json") ]

DeleteRecords ==
  \E domain \in Domains, fail \in SUBSET Range(DeleteTargets) :
    LET del == deleteZone(domain, fail)
    IN  /\ Step
        /\ sysFiles' = del.sysFiles
        /\ localFiles' = del.localFiles
        /\ resp' = [Quiet EXCEPT !.op = "delete", !.domain = domain, !.status = 200,
                                 !.removed = del.removed, !.ignored = del.ignored]
        /\ UNCHANGED <<sysDir, localDir, hist>>

\* GET /api/records
GetAll ==
  \E unreadable \in SUBSET {"system", "local"} :
    /\ Step
    /\ resp' = [Quiet EXCEPT !.op = "getAll", !.status = 200,
                             !.ignored = ignoredDirs(unreadable),
                             !.body = loadRecords(unreadable)]
    /\ UNCHANGED <<sysDir, localDir, sysFiles, localFiles, hist>>

\* GET /api/records/:domain: data[domain] || {}
GetOne ==
  \E domain \in Domains, unreadable \in SUBSET {"system", "local"} :
    LET data == loadRecords(unreadable)
    IN  /\ Step
        /\ resp' = [Quiet EXCEPT !.op = "getOne", !.domain = domain, !.status = 200,
                                 !.ignored = ignoredDirs(unreadable),
                                 !.body = IF domain \in DOMAIN data THEN data[domain]
                                          ELSE <<>>]
        /\ UNCHANGED <<sysDir, localDir, sysFiles, localFiles, hist>>

\* process start: if (!fs.existsSync(LOCAL_ZONE_DIR)) fs.mkdirSync(LOCAL_ZONE_DIR)
Bootstrap ==
  /\ Step
  /\ localDir' = TRUE
  /\ resp' = [Quiet EXCEPT !.op = "start"]
  /\ UNCHANGED <<sysDir, sysFiles, localFiles, hist>>

\* the local directory is removed from outside the process while it runs
RemoveLocalDir ==
  /\ Step
  /\ localDir
  /\ localDir' = FALSE
  /\ localFiles' = NoFiles
  /\ resp' = [Quiet EXCEPT !.op = "rmdir"]
  /\ UNCHANGED <<sysDir, sysFiles, hist>>

Next ==
  \/ SaveRecords
  \/ ScriptWrite
  \/ DeleteRecords
  \/ GetAll
  \/ GetOne
  \/ Bootstrap
  \/ RemoveLocalDir

Spec == Init /\ [][Next]_vars

(***************************************************************************)
(* Vocabulary of the properties                                            *)
(***************************************************************************)
\* the operations that submit a record set for writing
WriteOps == {"save", "script"}

\* what loadAll() returns in the current state
LoadAll == loadRecords({})

\* the key under which loadAll() files the artifacts of a domain
KeyOf(domain) == sanitizeDomainForFilename(domain)

\* response r reports that the call `name` was made and ended as `outcome`
Called(r, name, outcome) == \E i \in DOMAIN r.calls : r.calls[i] = <<name, outcome>>

\* the system attempt threw: at the mkdir or at the zone text write
PrimaryThrew(r) ==
  \/ Called(r, "mkdir system", "threw")
  \/ Called(r, "write system text", "threw")

\* a write of the fallback threw
SecondaryThrew(r) ==
  \/ Called(r, "write local text", "threw")
  \/ Called(r, "write local json", "threw")

\* the write returned to its caller without throwing
Returned(r) == r.op \in WriteOps /\ r.writtenTo # ""

\* directory `dir` with files `files` holds a JSON snapshot under `name`
Snapshot(dir, files, name) == dir /\ exists(files, name) /\ JSONparse(files[name]).ok

\* `content` is the zone text rendered for the write that r reports
RenderedFor(r, content) ==
  \E date \in Dates : content = ZoneTextOf[r.domain, r.records, date]

BothInLocal(r) ==
  LET zone == FilenameOf[r.domain]
  IN  /\ localDir
      /\ exists(localFiles, zone)
      /\ RenderedFor(r, localFiles[zone])
      /\ Snapshot(localDir, localFiles, zone \o JsonSuffix)
      /\ JSONparse(localFiles[zone \o JsonSuffix]).val = r.records

\* C2 as stated: whenever the system attempt fails, write succeeds, reports the
\* local directory and both artifacts are there.
C2_Fallback ==
  (resp.op \in WriteOps /\ PrimaryThrew(resp))
    => /\ ~resp.threw
       /\ resp.writtenTo = "local"
       /\ BothInLocal(resp)

\* C2 amended: whenever the system attempt fails, write succeeds exactly when no
\* write of the fallback fails, and then it reports the local directory and both
\* artifacts are there.
C2_FallbackUnlessSecondaryFails ==
  (resp.op \in WriteOps /\ PrimaryThrew(resp))
    => /\ resp.threw <=> SecondaryThrew(resp)
       /\ ~resp.threw => /\ resp.writtenTo = "local"
                         /\ resp.path = <<"local">> \o FilenameOf[resp.domain]
                         /\ BothInLocal(resp)

\* the system attempt threw and the write came back from the local directory
C2_Witness ==
  /\ resp.op \in WriteOps
  /\ PrimaryThrew(resp)
  /\ resp.writtenTo = "local"
  /\ BothInLocal(resp)

(***************************************************************************)
(* C3                                                                      *)
(***************************************************************************)
\* C3 as stated: on every write path, submitting a record set that validate
\* rejects leaves every file of both directories as it was.
C3_InvalidNeverWritten ==
  [][(resp'.op \in WriteOps /\ ErrorsOf[resp'.records] # <<>>)
       => (sysFiles' = sysFiles /\ localFiles' = localFiles)]_vars

(***************************************************************************)
(* C4                                                                      *)
(***************************************************************************)
\* C4 as stated: after a successful write of d, a delete(d) whose removals all
\* succeed leaves no artifact of d in either directory and no entry for d in
\* loadAll().
C4_DeleteDestroys ==
  (resp.op = "delete" /\ resp.ignored = {} /\ hist[resp.domain] = "ok")
    => /\ ~exists(sysFiles, FilenameOf[resp.domain])
       /\ ~exists(sysFiles, FilenameOf[resp.domain] \o JsonSuffix)
       /\ ~exists(localFiles, FilenameOf[resp.domain])
       /\ ~exists(localFiles, FilenameOf[resp.domain] \o JsonSuffix)
       /\ KeyOf(resp.domain) \notin DOMAIN LoadAll

(***************************************************************************)
(* C5                                                                      *)
(***************************************************************************)
\* the keys loadAll() can derive from the files of the two directories
SidecarKeys ==
  {derivedDomain(f) : f \in {g \in DOMAIN sysFiles \cup DOMAIN localFiles :
                               endsWith(g, JsonSuffix)}}

\* the sidecar file name of a key
SidecarOf(key) == DbPrefix \o key \o JsonSuffix

NeverWritten(domain) ==
  \A d \in Domains : KeyOf(d) = KeyOf(domain) => hist[d] = "none"

\* C6 as stated: deleting a domain that was never written returns an empty
\* removed-paths list (and so removes no file), whatever else was written.
C6_DeleteUnwritten ==
  (resp.op = "delete" /\ NeverWritten(resp.domain)) => resp.removed = <<>>

(***************************************************************************)
(* C7                                                                      *)
(***************************************************************************)
\* the system text write succeeded and the system sidecar write then threw
SidecarThrew(r) ==
  /\ r.op \in WriteOps
  /\ Called(r, "write system text", "ok")
  /\ Called(r, "write system json", "threw")

\* C7: when the system text write succeeds and the system sidecar write fails,
\* write returns the system location and path, makes no call of the fallback and
\* leaves the files of the local directory as they were.
C7_SidecarSwallowed ==
  [][SidecarThrew(resp')
       => /\ ~resp'.threw
          /\ resp'.op = "save" => resp'.status = 200
          /\ resp'.writtenTo = "system"
          /\ resp'.path = <<"system">> \o FilenameOf[resp'.domain]
          /\ ~Called(resp', "write local text", "ok")
          /\ ~Called(resp', "write local text", "threw")
          /\ ~Called(resp', "write local json", "ok")
          /\ ~Called(resp', "write local json", "threw")
          /\ localFiles' = localFiles
          /\ localDir' = localDir]_vars

\* the sidecar write threw after the text of a domain went to the system directory
C7_Witness ==
  /\ SidecarThrew(resp)
  /\ resp.writtenTo = "system"
  /\ exists(sysFiles, FilenameOf[resp.domain])

TimesCalled(r, name) == Cardinality({i \in DOMAIN r.calls : r.calls[i][1] = name})

\* C9: when the system attempt fails and a write of the fallback fails too,
\* write throws, the handler answers 500, and no call was made twice.
C9_TotalFailureReported ==
  (resp.op \in WriteOps /\ PrimaryThrew(resp) /\ SecondaryThrew(resp))
    => /\ resp.threw
       /\ resp.writtenTo = ""
       /\ resp.op = "save" => resp.status = 500
       /\ \A name \in FsCalls : TimesCalled(resp, name) <= 1

\* the system text write and the local sidecar write both threw
C9_Witness ==
  /\ resp.op = "save"
  /\ Called(resp, "write system text", "threw")
  /\ Called(resp, "write local json", "threw")
  /\ resp.status = 500

(***************************************************************************)
(* C10                                                                     *)
(***************************************************************************)
\* the .json files of a directory, and those of them that do not parse
JsonFiles(dir, files) == IF dir THEN {f \in DOMAIN files : endsWith(f, JsonSuffix)} ELSE {}

Malformed(dir, files) == {f \in JsonFiles(dir, files) : ~JSONparse(files[f]).ok}

\* the entries the well-formed .json files of the readable directories give:
\* the local file's when both directories have one for the key
EntriesOf(sysRead, localRead) ==
  LET sys == JsonFiles(sysDir /\ sysRead, sysFiles) \ Malformed(sysDir, sysFiles)
      loc == JsonFiles(localDir /\ localRead, localFiles) \ Malformed(localDir, localFiles)
      keys == {derivedDomain(f) : f \in sys \cup loc}
  IN  [k \in keys |->
         IF \E f \in loc : derivedDomain(f) = k
         THEN JSONparse(localFiles[CHOOSE f \in loc : derivedDomain(f) = k]).val
         ELSE JSONparse(sysFiles[CHOOSE f \in sys : derivedDomain(f) = k]).val]

\* C10: loadAll() answers whatever the directories hold: it returns exactly the
\* entries of the well-formed .json files, malformed files beside them or not,
\* and nothing for a missing directory; GET /api/records answers 200 with the
\* entries of the directories it could read.
C10_LoadSkipsMalformed ==
  /\ LoadAll = EntriesOf(TRUE, TRUE)
  /\ ~sysDir => DOMAIN LoadAll = {derivedDomain(f) :
                   f \in JsonFiles(localDir, localFiles) \ Malformed(localDir, localFiles)}
  /\ resp.op = "getAll"
       => /\ resp.status = 200
          /\ resp.body = EntriesOf("system" \notin resp.ignored, "local" \notin resp.ignored)

\* a directory that holds a malformed .json file beside a well-formed one, whose
\* entry loadAll() returns
C10_Witness ==
  \E f \in Malformed(localDir, localFiles) :
    \E g \in JsonFiles(localDir, localFiles) \ Malformed(localDir, localFiles) :
      /\ derivedDomain(g) \in DOMAIN LoadAll
      /\ LoadAll[derivedDomain(g)] = JSONparse(localFiles[g]).val
      /\ derivedDomain(f) \notin DOMAIN LoadAll

(***************************************************************************)
(* C11                                                                     *)
(***************************************************************************)
\* the zone text under the file name of `domain` is the rendering, for a domain of
\* that file name, of the record set its sidecar holds
FromSameWrite(files, domain) ==
  LET zone == FilenameOf[domain]
      snap == JSONparse(files[zone \o JsonSuffix])
  IN  /\ snap.ok
      /\ snap.val \in RecordSets
      /\ \E d \in Domains, date \in Dates :
           /\ FilenameOf[d] = zone
           /\ files[zone] = ZoneTextOf[d, snap.val, date]

\* the domains whose zone text file name is not the sidecar name of another
PlainDomains == {d \in Domains : ~endsWith(FilenameOf[d], JsonSuffix)}

\* C11 as stated: in each directory, whenever the zone text and the JSON snapshot
\* of a domain both exist, the snapshot is the record set the text was rendered
\* from.  Only sidecars that parse and domains whose text file is no other
\* domain's sidecar are looked at, the reading most favourable to the statement.
C11_PairConsistent ==
  \A d \in PlainDomains :
    /\ (exists(sysFiles, FilenameOf[d])
         /\ Snapshot(sysDir, sysFiles, FilenameOf[d] \o JsonSuffix))
          => FromSameWrite(sysFiles, d)
    /\ (exists(localFiles, FilenameOf[d])
         /\ Snapshot(localDir, localFiles, FilenameOf[d] \o JsonSuffix))
          => FromSameWrite(localFiles, d)

\* file `name` is in `after` as it was in `before`
Untouched(before, after, name) ==
  /\ exists(after, name) <=> exists(before, name)
  /\ exists(before, name) => after[name] = before[name]

\* what the write that r reports did to the pair of its file name in one
\* directory, whose text write is the call `text` and sidecar write the call `json`
PairWritten(r, before, after, text, json) ==
  LET zone == FilenameOf[r.domain]
      side == zone \o JsonSuffix
  IN  /\ Called(r, text, "ok") => (exists(after, zone) /\ RenderedFor(r, after[zone]))
      /\ ~Called(r, text, "ok") => Untouched(before, after, zone)
      /\ Called(r, json, "ok")
           => /\ Called(r, text, "ok")
              /\ exists(after, side)
              /\ after[side] = JsonOf[r.records]
              /\ FromSameWrite(after, r.domain)
      /\ ~Called(r, json, "ok") => Untouched(before, after, side)

\* no file of `after` is new or changed
NothingWritten(before, after) ==
  \A f \in DOMAIN after : f \in DOMAIN before /\ after[f] = before[f]

\* C11 amended: a write puts the text and the snapshot of one record set under its
\* file name in a directory exactly when both of its writes into that directory
\* succeed; when the text write succeeds and the sidecar write fails, the new text
\* stands beside the sidecar that was there before (or none); a write changes
\* nothing in a directory where its text write did not succeed; and an operation
\* that is not a write creates and changes no file.
C11_PairFromWriteUnlessSidecarFails ==
  [][IF resp'.op \in WriteOps
     THEN /\ PairWritten(resp', sysFiles, sysFiles',
                         "write system text", "write system json")
          /\ PairWritten(resp', localFiles, localFiles',
                         "write local text", "write local json")
     ELSE /\ NothingWritten(sysFiles, sysFiles')
          /\ NothingWritten(localFiles, localFiles')]_vars

\* the system text write succeeded, its sidecar write threw, and the new text
\* stands beside the snapshot of another record set
C11_Witness ==
  /\ SidecarThrew(resp)
  /\ resp.domain \in PlainDomains
  /\ RenderedFor(resp, sysFiles[FilenameOf[resp.domain]])
  /\ Snapshot(sysDir, sysFiles, FilenameOf[resp.domain] \o JsonSuffix)
  /\ JSONparse(sysFiles[FilenameOf[resp.domain] \o JsonSuffix]).val # resp.records

(***************************************************************************)
(* Calls of validateRecords and formatZoneFile on their own.  The record   *)
(* sets are those that pushing sample records onto an empty record set or  *)
(* onto the editor's empty record set gives, and the record sets above.    *)
(***************************************************************************)
\* the record set the editor starts a new domain with
EmptyRecords == [k \in Range(TypeKeys) |-> <<>>]

SampleRecords(key) ==
  CASE key = "A" ->
         { [name |-> "www", value |-> "192.0.2.1", ttl |-> "3600s"],
           [value |-> "999.1.1.1", ttl |-> "abc"] }
    [] key = "AAAA" ->
         { [value |-> "2001:db8::1", ttl |-> "1h"],
           [value |-> "192.0.2.1"] }
    [] key = "CNAME" ->
         { [name |-> "www", value |-> "mail.x.com", ttl |-> ""],
           [value |-> "bad host"] }
    [] key = "MX" ->
         { [value |-> "mail.x.com"],
           [value |-> "mail.x.com", priority |-> "20", ttl |-> "3600"],
           [value |-> "mail.x.com", priority |-> ""],
           [value |-> "mail.x.com", priority |-> Null],
           [value |-> "mail.x.com", priority |-> "-1", ttl |-> "abc"] }
    [] key = "TXT" ->
         { [value |-> "v=spf1 -all"],
           [name |-> "@"] }
    [] key = "SPF" ->
         { [value |-> "", ttl |-> "abc"],
           [value |-> "spf", ttl |-> Null] }
    [] key = "Other TXT Records" ->
         { [value |-> "abc"] }
    [] key = "Other Records" ->
         { [type |-> "NS", value |-> "mail.x.com"],
           [type |-> "SRV", value |-> "abc"] }

\* a record set with an entry in every section of the zone text
RsFull ==
  [k \in Range(TypeKeys) |->
     CASE k = "A" -> << [name |-> "www", value |-> "192.0.2.1", ttl |-> "3600s"] >>
       [] k = "AAAA" -> << [value |-> "2001:db8::1", ttl |-> "1h"] >>
       [] k = "CNAME" -> << [name |-> "www", value |-> "mail.x.com", ttl |-> ""] >>
       [] k = "MX" -> << [value |-> "mail.x.com"] >>
       [] k = "TXT" -> << [value |-> "v=spf1 -all"] >>
       [] k = "SPF" -> << [value |-> "spf", ttl |-> Null] >>
       [] k = "Other TXT Records" -> << [value |-> "abc"] >>
       [] k = "Other Records" -> << [type |-> "SRV", value |-> "abc"],
                                    [type |-> "NS", value |-> "mail.x.com"] >>]

\* the number of records pushed onto a record set
MaxEntries == 3

\* records[key].push(r), the array created when the key is absent
push(records, key, r) ==
  [k \in DOMAIN records \cup {key} |->
     IF k = key THEN Append(ArrayOf(records, key), r) ELSE records[k]]

RECURSIVE Pushed(_)
Pushed(n) ==
  IF n = 0 THEN {<<>>, EmptyRecords}
  ELSE LET S == Pushed(n - 1)
       IN  S \cup UNION {UNION {{push(rs, key, r) : r \in SampleRecords(key)} :
                                  key \in Range(TypeKeys)} : rs \in S}

SampleRecordSets == Pushed(MaxEntries) \cup RecordSets \cup {RsFull}

InitCall ==
  /\ ui = Mounted
  /\ sysDir = FALSE
  /\ localDir = FALSE
  /\ sysFiles = NoFiles
  /\ localFiles = NoFiles
  /\ hist = [d \in Domains |-> "none"]
  /\ ops = 0
  /\ \E records \in SampleRecordSets :
       resp = [Quiet EXCEPT !.domain = <<"x">>, !.records = records]

\* const errors = validateRecords(records)
Validate ==
  /\ resp.op = "none"
  /\ resp' = [resp EXCEPT !.op = "validate", !.details = validateRecords(resp.records)]
  /\ UNCHANGED <<sysDir, localDir, sysFiles, localFiles, hist, ops, ui>>

\* const zoneContent = formatZoneFile(domain, records)
Render ==
  /\ resp.op = "none"
  /\ \E date \in Dates :
       resp' = [resp EXCEPT !.op = "render",
                            !.body = formatZoneFile(resp.domain, resp.records, date)]
  /\ UNCHANGED <<sysDir, localDir, sysFiles, localFiles, hist, ops, ui>>

NextCall ==
  \/ Validate
  \/ Render

SpecCall == InitCall /\ [][NextCall]_vars

(***************************************************************************)
(* C12                                                                     *)
(***************************************************************************)
\* the place of a type in the order A, AAAA, MX, CNAME, TXT family
TypeRank(key) ==
  CASE key = "A" -> 1 [] key = "AAAA" -> 2 [] key = "MX" -> 3 [] key = "CNAME" -> 4
    [] OTHER -> 5

\* the type and the index an error message starts with, and what follows them
KeyIn(error) == error[1]
IndexIn(error) == error[3]
TextIn(error) == SubSeq(error, 5, Len(error))

\* the subsequence of the errors about entry idx of `key`, less their prefix
RECURSIVE ErrorsAbout(_, _, _)
ErrorsAbout(errors, key, idx) ==
  IF errors = <<>> THEN <<>>
  ELSE (IF KeyIn(Head(errors)) = key /\ IndexIn(Head(errors)) = ToString(idx)
        THEN <<TextIn(Head(errors))>> ELSE <<>>)
       \o ErrorsAbout(Tail(errors), key, idx)

\* the errors of record r validated as the only entry of `key`
ErrorsAlone(key, r) ==
  LET errors == validateRecords([k \in {key} |-> <<r>>])
  IN  [p \in DOMAIN errors |-> TextIn(errors[p])]

\* the index of the entry of records[key] that `error` is about
EntryOf(records, error) ==
  CHOOSE i \in DOMAIN records[KeyIn(error)] : ToString(i - 1) = IndexIn(error)

\* C12: the errors validate returns come in the order of the types A, AAAA, MX,
\* CNAME, TXT family, by index within a type; every one of them is about an entry
\* of the record set; and the errors about an entry are those the entry gives when
\* validated alone, whatever the errors of the entries and types before it.
C12_ErrorsAccumulateInOrder ==
  resp.op = "validate"
    => LET errors == resp.details
           records == resp.records
       IN  /\ \A p \in DOMAIN errors :
                /\ KeyIn(errors[p]) \in DOMAIN records \cap Range(ValidatedKeys)
                /\ \E i \in DOMAIN records[KeyIn(errors[p])] :
                     ToString(i - 1) = IndexIn(errors[p])
           /\ \A p, q \in DOMAIN errors :
                p < q => /\ TypeRank(KeyIn(errors[p])) <= TypeRank(KeyIn(errors[q]))
                         /\ KeyIn(errors[p]) = KeyIn(errors[q])
                              => EntryOf(records, errors[p]) <= EntryOf(records, errors[q])
           /\ \A key \in DOMAIN records \cap Range(ValidatedKeys) :
                \A i \in DOMAIN records[key] :
                  ErrorsAbout(errors, key, i - 1) = ErrorsAlone(key, records[key][i])

\* errors of two types, the second of them behind a rejected entry of its own type
C12_Witness ==
  /\ resp.op = "validate"
  /\ \E p, q \in DOMAIN resp.details :
       /\ p < q
       /\ KeyIn(resp.details[p]) = "A"
       /\ KeyIn(resp.details[q]) = "MX"
       /\ IndexIn(resp.details[q]) = "1"
       /\ ErrorsAlone("MX", resp.records.MX[1]) # <<>>

(***************************************************************************)
(* Reading a rendered zone text back: sections, lines and fields           *)
(***************************************************************************)
\* the sections of a zone text, in the order the spec gives them
SectionTypes == <<"A", "AAAA", "CNAME", "MX", "TXT", "NS">>

HeaderOf(type) == <<"; ", type, " Record">>

\* the line of the header of `type` in `body`, 0 when there is none
HeaderAt(body, type) ==
  IF \E h \in DOMAIN body : body[h] = HeaderOf(type)
  THEN CHOOSE h \in DOMAIN body : body[h] = HeaderOf(type)
  ELSE 0

\* the section types whose header is in `body`, in the order of their headers
RECURSIVE HeadersIn(_)
HeadersIn(body) ==
  IF body = <<>> THEN <<>>
  ELSE (IF \E t \in Range(SectionTypes) : Head(body) = HeaderOf(t)
        THEN <<Head(body)[2]>> ELSE <<>>) \o HeadersIn(Tail(body))

\* the entries of a record set that the section of `type` is about
EntriesFor(records, type) ==
  CASE type = "TXT" -> ArrayOf(records, "TXT") \o ArrayOf(records, "Other TXT Records")
                       \o ArrayOf(records, "SPF")
    [] type = "NS" ->
         LET other == ArrayOf(records, "Other Records")
             n == Cardinality({i \in DOMAIN other :
                                 Has(other[i], "type") /\ other[i].type = "NS"})
             at(j) == CHOOSE i \in DOMAIN other :
                        /\ Has(other[i], "type") /\ other[i].type = "NS"
                        /\ Cardinality({k \in 1..i : Has(other[k], "type")
                                                       /\ other[k].type = "NS"}) = j
         IN  [j \in 1..n |-> other[at(j)]]
    [] OTHER -> ArrayOf(records, type)

\* the tab-separated fields of a line, each the tuple of its pieces
RECURSIVE splitTabs(_, _)
splitTabs(line, cur) ==
  IF line = <<>> THEN <<cur>>
  ELSE IF Head(line) = Tab THEN <<cur>> \o splitTabs(Tail(line), <<>>)
  ELSE splitTabs(Tail(line), Append(cur, Head(line)))

\* the position of the class field IN among the fields of a record line
ClassAt(fields) == CHOOSE t \in DOMAIN fields : fields[t] = <<"IN">>

\* the fields of a record line: what stands between the name and IN, the type,
\* and for an MX line the priority
TtlField(line) ==
  LET fields == splitTabs(line, <<>>)
  IN  IF ClassAt(fields) = 3 THEN fields[2] ELSE <<>>

TypeField(line) ==
  LET fields == splitTabs(line, <<>>)
  IN  fields[ClassAt(fields) + 1]

PriorityField(line) ==
  LET fields == splitTabs(line, <<>>)
  IN  fields[ClassAt(fields) + 2]

LastField(line) ==
  LET fields == splitTabs(line, <<>>)
  IN  fields[Len(fields)]

\* the line of `body` for entry i of the section of `type`
LineOf(body, type, i) == body[HeaderAt(body, type) + i]

\* validate has no complaint about record r as an entry of the section `type`
Accepted(type, r) ==
  CASE type = "NS" -> TRUE
    [] OTHER -> ErrorsAlone(type, r) = <<>>

(***************************************************************************)
(* C13                                                                     *)
(***************************************************************************)
\* validate skips the priority check of record r
NoPriority(r) == ~Has(r, "priority") \/ r.priority = Null \/ r.priority = ""

\* C13 as stated: every MX record that validate accepts with its priority check
\* skipped is rendered with priority 10, and every MX record whose priority
\* passed the check is rendered with that priority.
C13_MXPriorityDefault ==
  resp.op = "render"
    => \A i \in DOMAIN EntriesFor(resp.records, "MX") :
         LET r == EntriesFor(resp.records, "MX")[i]
         IN  Accepted("MX", r)
               => PriorityField(LineOf(resp.body, "MX", i))
                    = IF NoPriority(r) THEN <<"10">> ELSE <<r.priority>>

(***************************************************************************)
(* C14                                                                     *)
(***************************************************************************)
\* the section types with at least one entry, in the order of the spec
RECURSIVE NonEmptyFrom(_, _)
NonEmptyFrom(records, k) ==
  IF k > Len(SectionTypes) THEN <<>>
  ELSE (IF EntriesFor(records, SectionTypes[k]) # <<>>
        THEN <<SectionTypes[k]>> ELSE <<>>) \o NonEmptyFrom(records, k + 1)

RECURSIVE SumOver(_, _)
SumOver(f, keys) ==
  IF keys = {} THEN 0
  ELSE LET k == CHOOSE x \in keys : TRUE IN f[k] + SumOver(f, keys \ {k})

\* C14: the headers in the zone text are those of the types with at least one
\* entry, in the order A, AAAA, CNAME, MX, TXT, NS; under a header stand one line
\* per entry, of that type and in entry order (TXT, then Other TXT Records, then
\* SPF for the merged TXT section; the NS entries of Other Records), then a blank
\* line; and the text holds nothing else after the SOA record.
C14_SectionsInOrder ==
  resp.op = "render"
    => LET body == resp.body
           records == resp.records
           present == NonEmptyFrom(records, 1)
           size == [t \in Range(present) |-> Len(EntriesFor(records, t)) + 2]
       IN  /\ HeadersIn(body) = present
           /\ Len(body) = Len(Preamble(resp.domain, "")) + SumOver(size, Range(present))
           /\ \A t \in Range(present) :
                LET entries == EntriesFor(records, t)
                IN  /\ \A i \in DOMAIN entries :
                         /\ TypeField(LineOf(body, t, i)) = <<t>>
                         /\ LastField(LineOf(body, t, i))
                              = IF t = "TXT"
                                THEN dropEmpty(<<"\"", OrEmpty(entries[i], "value"), "\"">>)
                                ELSE <<Str(entries[i], "value")>>
                    /\ LineOf(body, t, Len(entries) + 1) = <<>>

\* a zone text with all six sections, its TXT section merged from three buckets
C14_Witness ==
  /\ resp.op = "render"
  /\ HeadersIn(resp.body) = SectionTypes
  /\ ArrayOf(resp.records, "TXT") # <<>>
  /\ ArrayOf(resp.records, "Other TXT Records") # <<>>
  /\ ArrayOf(resp.records, "SPF") # <<>>
  /\ Len(ArrayOf(resp.records, "Other Records")) > Len(EntriesFor(resp.records, "NS"))

(***************************************************************************)
(* C15                                                                     *)
(***************************************************************************)
\* record r has a ttl that is not empty
HasTTL(r) == Has(r, "ttl") /\ r.ttl # Null /\ r.ttl # ""

\* the characters of a field of one piece
FieldChars(field) == IF field = <<>> THEN <<>> ELSE Chars(field[1])

\* C15 as stated: for every record that validate accepts, the ttl field of its
\* line is the ttl with the non-digit characters stripped when the record has a
\* ttl, and is blank when it has none.
C15_TTLNormalized ==
  resp.op = "render"
    => \A t \in Range(SectionTypes) :
         \A i \in DOMAIN EntriesFor(resp.records, t) :
           LET r == EntriesFor(resp.records, t)[i]
               field == TtlField(LineOf(resp.body, t, i))
           IN  Accepted(t, r)
                 => IF HasTTL(r)
                    THEN FieldChars(field) = stripNonDigits(Chars(r.ttl))
                    ELSE field = <<>>

(***************************************************************************)
(* C16                                                                     *)
(***************************************************************************)
\* what loadAll() returns for a domain: its record set, or nothing
EntryFor(domain) ==
  IF KeyOf(domain) \in DOMAIN LoadAll THEN <<LoadAll[KeyOf(domain)]>> ELSE <<>>

\* the four artifacts of a domain are after the step as they were before it
ArtifactsUntouched(domain) ==
  /\ Untouched(sysFiles, sysFiles', FilenameOf[domain])
  /\ Untouched(sysFiles, sysFiles', FilenameOf[domain] \o JsonSuffix)
  /\ Untouched(localFiles, localFiles', FilenameOf[domain])
  /\ Untouched(localFiles, localFiles', FilenameOf[domain] \o JsonSuffix)

\* C16 as stated: a successful write of d1 creates or modifies no artifact of
\* another domain d2 and leaves what loadAll() returns for d2 as it was.  Only
\* domains that differ from d1 after sanitization are looked at, the reading most
\* favourable to the statement.
C16_DomainIsolation ==
  [][Returned(resp')
       => \A d2 \in Domains :
            KeyOf(d2) # KeyOf(resp'.domain)
              => /\ ArtifactsUntouched(d2)
                 /\ EntryFor(d2)' = EntryFor(d2)]_vars

(***************************************************************************)
(* The zone editor.  Each handler is a step; a handler that awaits fetch   *)
(* is two steps, the second taking the answer of the server as its input.  *)
(***************************************************************************)
\* what the user types into the domain box, and into the cells of the table
DomainInputs == {"", " ", "x"}
EditedTypes == {"A", "MX"}
EditedFields == {"value", "priority"}
TypedValues == {"abc"}

\* the record sets GET /api/records/:domain serves
ServedRecords == {RsA, RsMX}

\* the number of steps of the editor in a run
MaxEvents == 6

\* the row addRecordRow pushes
BlankRow == [name |-> "", value |-> "", ttl |-> "", priority |-> ""]

\* JSON.parse(JSON.stringify(records))
deepCopy(records) == JSONparse(JSONstringify(records)).val

\* records[type][index][field] = value
setCell(records, type, index, field, value) ==
  LET row == records[type][index]
  IN  [records EXCEPT ![type][index] =
         [f \in DOMAIN row \cup {field} |-> IF f = field THEN value ELSE row[f]]]

\* the step `name` of the editor is taken
Tick(name) == [ui EXCEPT !.event = name, !.events = @ + 1]

ServerIdle == UNCHANGED <<sysDir, localDir, sysFiles, localFiles, resp, hist, ops>>

InitEditor ==
  /\ ui = Mounted
  /\ sysDir = TRUE
  /\ localDir = TRUE
  /\ sysFiles = NoFiles
  /\ localFiles = NoFiles
  /\ resp = Quiet
  /\ hist = [d \in Domains |-> "none"]
  /\ ops = 0

\* onChange of the domain box: setDomain(e.target.value)
setDomain ==
  /\ ui.events < MaxEvents
  /\ \E value \in DomainInputs \ {ui.domain} :
       ui' = [Tick("setDomain") EXCEPT !.domain = value, !.undisturbed = FALSE]
  /\ ServerIdle

\* handleLookup up to its await fetch
handleLookup ==
  /\ ui.events < MaxEvents
  /\ ui.domain # ""
  /\ "lookup" \notin ui.pending
  /\ ui' = [Tick("handleLookup") EXCEPT !.pending = @ \cup {"lookup"}]
  /\ ServerIdle

\* handleLookup after its await: the answer is 404, another failure, an empty
\* object or a record set; createNew is what the user answers to confirm()
handleLookupAnswered ==
  /\ ui.events < MaxEvents
  /\ "lookup" \in ui.pending
  /\ \E answer \in {"404", "failed", "empty", "data"}, createNew \in BOOLEAN,
        data \in ServedRecords :
       LET u == [Tick("handleLookupAnswered") EXCEPT !.pending = @ \ {"lookup"}]
       IN  ui' = CASE answer \in {"404", "empty"} /\ createNew ->
                        [u EXCEPT !.records = EmptyRecords, !.isEditing = TRUE,
                                  !.showRecords = TRUE, !.shared = FALSE,
                                  !.linked = FALSE,
                                  !.entered = IF ui.isEditing THEN @ ELSE EmptyRecords,
                                  !.undisturbed = ~ui.isEditing]
                   [] answer = "data" ->
                        [u EXCEPT !.records = data, !.showRecords = TRUE,
                                  !.shared = FALSE, !.linked = FALSE,
                                  !.undisturbed = FALSE]
                   [] OTHER -> u
  /\ ServerIdle

\* handleRecordChange(type, index, field, value): the row object is changed in
\* place, so every object that holds the row sees the change
handleRecordChange ==
  /\ ui.events < MaxEvents
  /\ ui.showRecords
  /\ ui.isEditing
  /\ \E type \in EditedTypes \cap DOMAIN ui.records, field \in EditedFields,
        value \in TypedValues :
       \E index \in DOMAIN ui.records[type] :
         ui' = [Tick("handleRecordChange") EXCEPT
                  !.records = setCell(@, type, index, field, value),
                  !.originalRecords =
                     IF ui.shared THEN setCell(@, type, index, field, value) ELSE @,
                  !.captured =
                     IF /\ ui.linked
                        /\ type \in DOMAIN @[1]
                        /\ index \in DOMAIN @[1][type]
                     THEN <<setCell(@[1], type, index, field, value)>> ELSE @]
  /\ ServerIdle

\* handleEdit
handleEdit ==
  /\ ui.events < MaxEvents
  /\ ui.showRecords
  /\ ~ui.isEditing
  /\ ui' = [Tick("handleEdit") EXCEPT !.isEditing = TRUE,
                                      !.originalRecords = deepCopy(ui.records),
                                      !.shared = FALSE,
                                      !.entered = ui.records,
                                      !.undisturbed = TRUE]
  /\ ServerIdle

\* handleSave up to its await fetch; the closure holds the records of this render
handleSave ==
  /\ ui.events < MaxEvents
  /\ ui.showRecords
  /\ ui.isEditing
  /\ trim(Chars(ui.domain)) # <<>>
  /\ "save" \notin ui.pending
  /\ ui' = [Tick("handleSave") EXCEPT !.pending = @ \cup {"save"},
                                      !.captured = <<ui.records>>,
                                      !.linked = TRUE]
  /\ ServerIdle

\* handleSave after its await: res.ok or not
handleSaveAnswered ==
  /\ ui.events < MaxEvents
  /\ "save" \in ui.pending
  /\ \E ok \in BOOLEAN :
       LET u == [Tick("handleSaveAnswered") EXCEPT !.pending = @ \ {"save"},
                                                   !.captured = <<>>,
                                                   !.linked = FALSE]
       IN  ui' = IF ok
                 THEN [u EXCEPT !.originalRecords = deepCopy(ui.captured[1]),
                                !.isEditing = FALSE, !.shared = FALSE,
                                !.undisturbed = FALSE]
                 ELSE u
  /\ ServerIdle

\* handleCancel
handleCancel ==
  /\ ui.events < MaxEvents
  /\ ui.showRecords
  /\ ui.isEditing
  /\ ui' = [Tick("handleCancel") EXCEPT !.records = ui.originalRecords,
                                        !.isEditing = FALSE,
                                        !.shared = TRUE,
                                        !.linked = FALSE]
  /\ ServerIdle

\* handleDeleteDomain up to its await fetch, the user having confirmed
handleDeleteDomain ==
  /\ ui.events < MaxEvents
  /\ ui.showRecords
  /\ ~ui.isEditing
  /\ ui.domain # ""
  /\ "delete" \notin ui.pending
  /\ ui' = [Tick("handleDeleteDomain") EXCEPT !.pending = @ \cup {"delete"}]
  /\ ServerIdle

\* handleDeleteDomain after its await: res.ok or not
handleDeleteAnswered ==
  /\ ui.events < MaxEvents
  /\ "delete" \in ui.pending
  /\ \E ok \in BOOLEAN :
       LET u == [Tick("handleDeleteAnswered") EXCEPT !.pending = @ \ {"delete"}]
       IN  ui' = IF ok
                 THEN [u EXCEPT !.domain = "", !.showRecords = FALSE,
                                !.isEditing = FALSE,
                                !.records = INITIAL_RECORDS,
                                !.originalRecords = INITIAL_RECORDS,
                                !.shared = TRUE, !.linked = FALSE,
                                !.undisturbed = FALSE]
                 ELSE u
  /\ ServerIdle

\* addRecordRow(type): a copy of the array with a blank row pushed
addRecordRow ==
  /\ ui.events < MaxEvents
  /\ ui.showRecords
  /\ ui.isEditing
  /\ \E type \in EditedTypes \cap DOMAIN ui.records :
       ui' = [Tick("addRecordRow") EXCEPT !.records = push(@, type, BlankRow)]
  /\ ServerIdle

NextEditor ==
  \/ setDomain
  \/ handleLookup
  \/ handleLookupAnswered
  \/ handleRecordChange
  \/ handleEdit
  \/ handleSave
  \/ handleSaveAnswered
  \/ handleCancel
  \/ handleDeleteDomain
  \/ handleDeleteAnswered
  \/ addRecordRow

SpecEditor == InitEditor /\ [][NextEditor]_vars

(***************************************************************************)
(* C17                                                                     *)
(***************************************************************************)
\* C17 as stated: when editing mode was entered, by Edit or by creating new
\* records after a lookup that found nothing, and the records were then changed,
\* Cancel leaves editing mode and displays the records that were displayed when
\* editing mode was entered.  Only editing sessions that no answer of the server
\* and no change of the domain box has reached are looked at, the reading most
\* favourable to the statement.
C17_CancelRestores ==
  [][(/\ ui'.event = "handleCancel"
      /\ ui'.events = ui.events + 1
      /\ ui.undisturbed
      /\ ui.records # ui.entered)
       => /\ ~ui'.isEditing
          /\ ui'.records = ui.entered]_vars

====
